---- MODULE Spec2Model ----
(***************************************************************************)
(* A model of GeometryData::loadFromOBJFile (src/src/geometry.cpp): the    *)
(* character-level OBJ parser (a state machine over an ifstream), the      *)
(* expansion pass that flattens face records into per-corner buffers, and  *)
(* the per-face tangent computation.                                       *)
(*                                                                         *)
(* Characters are one-character strings; "EOF" stands for Traits::eof().   *)
(* Numeric literals of the modelled inputs are decimal integers with an    *)
(* optional sign.  A float is a fixed-point integer with FScale units per  *)
(* 1.0; FInf, -FInf and FNaN encode the IEEE special values.               *)
(***************************************************************************)
EXTENDS Integers, Sequences, FiniteSets, TLC

----------------------------------------------------------------------------
(* Bounds of the model *)

\* number of free lines of an input file (after the optional pool preamble)
MaxLines == 2

----------------------------------------------------------------------------
(* Evaluate e once and use its value in Body *)

Bind(e, Body(_)) == CHOOSE r \in {Body(x) : x \in {e}} : TRUE

----------------------------------------------------------------------------
(* Floats *)

FScale == 100
FInf == 10000000
FNaN == FInf + 1

\* values an uninitialised float or an out-of-bounds vector read may hold
GarbageFloats == {0, 2 * FScale}

ToFloat(n) == n * FScale

IsNaN(a) == a = FNaN
IsInf(a) == a = FInf \/ a = -FInf
Abs(a) == IF a < 0 THEN -a ELSE a
Sign(a) == IF a < 0 THEN -1 ELSE 1

\* integer division rounding toward zero
TruncDiv(a, b) == Sign(a) * Sign(b) * (Abs(a) \div Abs(b))

FNeg(a) == IF IsNaN(a) THEN FNaN ELSE -a

FAdd(a, b) ==
    IF IsNaN(a) \/ IsNaN(b) THEN FNaN
    ELSE IF IsInf(a) /\ IsInf(b) THEN (IF a = b THEN a ELSE FNaN)
    ELSE IF IsInf(a) THEN a
    ELSE IF IsInf(b) THEN b
    ELSE a + b

FSub(a, b) == FAdd(a, FNeg(b))

FMul(a, b) ==
    IF IsNaN(a) \/ IsNaN(b) THEN FNaN
    ELSE IF IsInf(a) \/ IsInf(b)
         THEN (IF a = 0 \/ b = 0 THEN FNaN ELSE Sign(a) * Sign(b) * FInf)
    ELSE TruncDiv(a * b, FScale)

\* FDiv that gives 0 for a zero divisor instead of dividing
FDivZeroGuard(a, b) ==
    IF IsNaN(a) \/ IsNaN(b) THEN FNaN
    ELSE IF IsInf(a) THEN (IF IsInf(b) THEN FNaN ELSE Sign(a) * Sign(b) * FInf)
    ELSE IF IsInf(b) THEN 0
    ELSE IF b = 0 THEN 0
    ELSE TruncDiv(a * FScale, b)

FDiv(a, b) ==
    IF IsNaN(a) \/ IsNaN(b) THEN FNaN
    ELSE IF IsInf(a) THEN (IF IsInf(b) THEN FNaN ELSE Sign(a) * Sign(b) * FInf)
    ELSE IF IsInf(b) THEN 0
    ELSE IF b = 0 THEN (IF a = 0 THEN FNaN ELSE Sign(a) * FInf)
    ELSE TruncDiv(a * FScale, b)

\* the integer square root of x, given lo * lo <= x < hi * hi
RECURSIVE ISqrtBetween(_, _, _)
ISqrtBetween(x, lo, hi) ==
    IF hi - lo <= 1 THEN lo
    ELSE Bind((lo + hi) \div 2,
              LAMBDA mid : IF mid * mid <= x THEN ISqrtBetween(x, mid, hi)
                           ELSE ISqrtBetween(x, lo, mid))

FSqrt(a) ==
    Bind(a, LAMBDA v :
        IF IsNaN(v) \/ v < 0 THEN FNaN
        ELSE IF IsInf(v) THEN FInf
        ELSE Bind(v * FScale, LAMBDA x : ISqrtBetween(x, 0, 40000)))

----------------------------------------------------------------------------
(* The input stream: std::ifstream over a character buffer *)

EOFChar == "EOF"
WhiteSpace == {" ", "\t", "\n"}
Digits == {"0", "1", "2", "3", "4", "5", "6", "7", "8", "9"}
DigitChars == <<"0", "1", "2", "3", "4", "5", "6", "7", "8", "9">>
DigitVal(c) == CHOOSE d \in 0..9 : DigitChars[d + 1] = c

\* buf: the file's characters; pos: index of the next character to read
NewStream(buf) == [buf |-> buf, pos |-> 1, eofbit |-> FALSE, failbit |-> FALSE]

Good(s) == ~s.eofbit /\ ~s.failbit
AtEnd(s) == s.pos > Len(s.buf)

RECURSIVE SkipWhile(_, _, _)
SkipWhile(buf, pos, set) ==
    IF pos <= Len(buf) /\ buf[pos] \in set THEN SkipWhile(buf, pos + 1, set) ELSE pos

\* inStream >> ws
Ws(s) ==
    IF ~Good(s) THEN [s EXCEPT !.failbit = TRUE]
    ELSE Bind(SkipWhile(s.buf, s.pos, WhiteSpace),
              LAMBDA p : [s EXCEPT !.pos = p, !.eofbit = (p > Len(s.buf))])

\* inStream.get()
Get(s) ==
    IF ~Good(s) THEN [s |-> [s EXCEPT !.failbit = TRUE], ch |-> EOFChar]
    ELSE IF AtEnd(s)
         THEN [s |-> [s EXCEPT !.eofbit = TRUE, !.failbit = TRUE], ch |-> EOFChar]
    ELSE [s |-> [s EXCEPT !.pos = s.pos + 1], ch |-> s.buf[s.pos]]

\* inStream.unget(): clears eofbit first, then fails if the stream is not good
Unget(s) ==
    IF s.failbit THEN [s EXCEPT !.eofbit = FALSE]
    ELSE [s EXCEPT !.eofbit = FALSE, !.pos = s.pos - 1]

RECURSIVE DigitsValue(_, _, _, _)
DigitsValue(buf, from, to, acc) ==
    IF from >= to THEN acc
    ELSE DigitsValue(buf, from + 1, to, 10 * acc + DigitVal(buf[from]))

\* inStream >> number: stored tells whether the target variable was written
ReadNum(s) ==
    IF ~Good(s) THEN [s |-> [s EXCEPT !.failbit = TRUE], stored |-> FALSE, val |-> 0]
    ELSE
      Bind(SkipWhile(s.buf, s.pos, WhiteSpace), LAMBDA p0 :
      IF p0 > Len(s.buf)
      THEN [s |-> [s EXCEPT !.pos = p0, !.eofbit = TRUE, !.failbit = TRUE],
            stored |-> FALSE, val |-> 0]
      ELSE
        Bind(IF s.buf[p0] \in {"-", "+"} THEN p0 + 1 ELSE p0, LAMBDA p1 :
        Bind(SkipWhile(s.buf, p1, Digits), LAMBDA p2 :
          LET neg == s.buf[p0] = "-"
              hitEnd == p2 > Len(s.buf)
          IN IF p2 = p1
             THEN [s |-> [s EXCEPT !.pos = p2, !.eofbit = hitEnd, !.failbit = TRUE],
                   stored |-> TRUE, val |-> 0]
             ELSE [s |-> [s EXCEPT !.pos = p2, !.eofbit = hitEnd],
                   stored |-> TRUE,
                   val |-> (IF neg THEN -1 ELSE 1) * DigitsValue(s.buf, p1, p2, 0)])))

----------------------------------------------------------------------------
(* The parser: one iteration of the while loop per current data type *)

EmptyGeom == [vertices |-> <<>>, textureCoords |-> <<>>, normals |-> <<>>,
              faces |-> <<>>]

\* the locals of loadFromOBJFile that live across loop iterations
NewParse(buf) == [inStream |-> NewStream(buf), currentDataType |-> "NONE",
                  tempGeom |-> EmptyGeom, log |-> <<>>]

\* the value pushed for a float local after inStream >> x
Pushed(r, g) == IF r.stored THEN ToFloat(r.val) ELSE g

CaseNone(p) ==
    Bind(Ws(p.inStream), LAMBDA s1 :
    Bind(Get(s1), LAMBDA g1 :
    Bind(Get(g1.s), LAMBDA g2 :
      LET typeChar1 == g1.ch
          typeChar2 == g2.ch
      IN IF g1.s.eofbit THEN [p EXCEPT !.inStream = g1.s]
         ELSE IF typeChar1 = "#"
              THEN [p EXCEPT !.inStream = g2.s, !.currentDataType = "COMMENT"]
         ELSE IF typeChar1 = "f"
              THEN [p EXCEPT !.inStream = g2.s, !.currentDataType = "FACE"]
         ELSE IF typeChar1 # "v"
              THEN [p EXCEPT !.inStream = g2.s,
                             !.log = Append(@, "parse error")]
         ELSE IF typeChar2 \in {" ", "\t"}
              THEN [p EXCEPT !.inStream = g2.s, !.currentDataType = "VERTEX"]
         ELSE IF typeChar2 = "t"
              THEN [p EXCEPT !.inStream = g2.s, !.currentDataType = "TEXTURECOORD"]
         ELSE IF typeChar2 = "n"
              THEN [p EXCEPT !.inStream = g2.s, !.currentDataType = "NORMAL"]
         ELSE IF typeChar2 = "p"
              THEN [p EXCEPT !.inStream = g2.s, !.currentDataType = "COMMENT",
                             !.log = Append(@, "free-form ignored")]
         ELSE [p EXCEPT !.inStream = g2.s, !.currentDataType = "COMMENT",
                        !.log = Append(@, "unsupported ignored")])))

CaseVertex(p, g) ==
    Bind(ReadNum(p.inStream), LAMBDA rx :
    Bind(ReadNum(rx.s), LAMBDA ry :
    Bind(ReadNum(ry.s), LAMBDA rz :
      [p EXCEPT !.inStream = rz.s,
                !.tempGeom.vertices =
                    @ \o <<Pushed(rx, g), Pushed(ry, g), Pushed(rz, g)>>,
                !.currentDataType = "COMMENT"])))

CaseTextureCoord(p, g) ==
    Bind(ReadNum(p.inStream), LAMBDA ru :
    Bind(ReadNum(ru.s), LAMBDA rv :
      [p EXCEPT !.inStream = rv.s,
                !.tempGeom.textureCoords = @ \o <<Pushed(ru, g), Pushed(rv, g)>>,
                !.currentDataType = "COMMENT"]))

CaseNormal(p, g) ==
    Bind(ReadNum(p.inStream), LAMBDA rx :
    Bind(ReadNum(rx.s), LAMBDA ry :
    Bind(ReadNum(ry.s), LAMBDA rz :
      [p EXCEPT !.inStream = rz.s,
                !.tempGeom.normals =
                    @ \o <<Pushed(rx, g), Pushed(ry, g), Pushed(rz, g)>>,
                !.currentDataType = "COMMENT"])))

\* an index local that no extraction was attempted on
NotRead(s) == [s |-> s, stored |-> FALSE, val |-> 0]

\* one pass of the corner loop; c carries the stream and the three index
\* locals, which are declared outside the loop
ReadCorner(c) ==
    Bind(ReadNum(c.s), LAMBDA rv :
    Bind(Get(rv.s), LAMBDA postVertexCheck :
      LET vertIndex == IF rv.stored THEN rv.val ELSE c.vertIndex
      IN IF postVertexCheck.ch = "/"
         THEN
           Bind(Get(postVertexCheck.s), LAMBDA texCoordExistCheck :
           Bind(Unget(texCoordExistCheck.s), LAMBDA u :
           Bind(IF texCoordExistCheck.ch # "/" THEN ReadNum(u) ELSE NotRead(u),
                LAMBDA rt :
           Bind(Get(rt.s), LAMBDA postTexCoordCheck :
           Bind(IF postTexCoordCheck.ch = "/" THEN ReadNum(postTexCoordCheck.s)
                ELSE NotRead(Unget(postTexCoordCheck.s)),
                LAMBDA rn :
             [s |-> rn.s, vertIndex |-> vertIndex,
              texCoordIndex |-> IF rt.stored THEN rt.val ELSE c.texCoordIndex,
              normalIndex |-> IF rn.stored THEN rn.val ELSE c.normalIndex])))))
         ELSE [s |-> postVertexCheck.s, vertIndex |-> vertIndex,
               texCoordIndex |-> c.texCoordIndex, normalIndex |-> c.normalIndex]))

CaseFace(p) ==
    Bind([s |-> p.inStream, vertIndex |-> 0, texCoordIndex |-> 0, normalIndex |-> 0],
         LAMBDA c0 :
    Bind(ReadCorner(c0), LAMBDA c1 :
    Bind(ReadCorner(c1), LAMBDA c2 :
    Bind(ReadCorner(c2), LAMBDA c3 :
      \* the 1-based indices become 0-based
      LET face == [vertexIndex |-> <<c1.vertIndex - 1, c2.vertIndex - 1,
                                     c3.vertIndex - 1>>,
                   texCoordIndex |-> <<c1.texCoordIndex - 1, c2.texCoordIndex - 1,
                                       c3.texCoordIndex - 1>>,
                   normalIndex |-> <<c1.normalIndex - 1, c2.normalIndex - 1,
                                     c3.normalIndex - 1>>]
      IN [p EXCEPT !.inStream = c3.s,
                   !.tempGeom.faces = Append(@, face),
                   !.currentDataType = "COMMENT"]))))

CaseComment(p) ==
    Bind(Get(p.inStream), LAMBDA nextChar :
      [p EXCEPT !.inStream = nextChar.s,
                !.currentDataType = IF nextChar.ch = "\n" THEN "NONE" ELSE @])

\* the body of the while loop
ParseStep(p, g) ==
    CASE p.currentDataType = "NONE" -> CaseNone(p)
      [] p.currentDataType = "VERTEX" -> CaseVertex(p, g)
      [] p.currentDataType = "TEXTURECOORD" -> CaseTextureCoord(p, g)
      [] p.currentDataType = "NORMAL" -> CaseNormal(p, g)
      [] p.currentDataType = "FACE" -> CaseFace(p)
      [] p.currentDataType = "COMMENT" -> CaseComment(p)

----------------------------------------------------------------------------
(* The expander: one iteration of the face loop *)

EmptyBuffers == [vertices |-> <<>>, textureCoords |-> <<>>, normals |-> <<>>,
                 tangents |-> <<>>, bitangents |-> <<>>]

\* tempGeom.<pool>[k]: inside the vector its element, outside it whatever
\* the memory holds
PoolAt(pool, k, g) == IF k >= 0 /\ k < Len(pool) THEN pool[k + 1] ELSE g

\* HasTextureCoords decided by corner 1 instead of corner 0
HasTextureCoordsOfCorner1(face) == face.texCoordIndex[2] >= 0
HasTextureCoords(face) == face.texCoordIndex[1] >= 0
\* HasNormals with the comparison off by one: the absent index -1 passes
HasNormalsOffByOne(face) == face.normalIndex[1] >= -1
HasNormals(face) == face.normalIndex[1] >= 0

\* some read of the attribute copy falls outside its pool
ReadsOutOfBounds(geom, face) ==
    \E c \in 1..3 :
        \/ ~(face.vertexIndex[c] >= 0
             /\ 3 * face.vertexIndex[c] + 2 < Len(geom.vertices))
        \/ HasTextureCoords(face)
             /\ ~(face.texCoordIndex[c] >= 0
                  /\ 2 * face.texCoordIndex[c] + 1 < Len(geom.textureCoords))
        \/ HasNormals(face)
             /\ ~(face.normalIndex[c] >= 0
                  /\ 3 * face.normalIndex[c] + 2 < Len(geom.normals))

CornerPosition(geom, face, c, g) ==
    [i \in 1..3 |-> PoolAt(geom.vertices, 3 * face.vertexIndex[c] + (i - 1), g)]
CornerTexCoord(geom, face, c, g) ==
    [i \in 1..2 |-> PoolAt(geom.textureCoords, 2 * face.texCoordIndex[c] + (i - 1), g)]
CornerNormal(geom, face, c, g) ==
    [i \in 1..3 |-> PoolAt(geom.normals, 3 * face.normalIndex[c] + (i - 1), g)]

\* LastN with the start index 0 instead of v.size() - n
LastNFromStart(v, n) == SubSeq(v, 1, n)
\* the last n elements of a vector: &v[v.size() - n]
LastN(v, n) == SubSeq(v, Len(v) - n + 1, Len(v))

\* the (bi)tangent of the face whose 9 position floats are vs and whose
\* 6 texcoord floats are uv
TangentPair(vs, uv) ==
    Bind([X1 |-> FSub(vs[4], vs[1]), Y1 |-> FSub(vs[5], vs[2]),
          Z1 |-> FSub(vs[6], vs[3]), X2 |-> FSub(vs[7], vs[1]),
          Y2 |-> FSub(vs[8], vs[2]), Z2 |-> FSub(vs[9], vs[3]),
          U1 |-> FSub(uv[3], uv[1]), V1 |-> FSub(uv[4], uv[2]),
          U2 |-> FSub(uv[5], uv[1]), V2 |-> FSub(uv[6], uv[2])],
         LAMBDA delta :
    Bind(FDiv(ToFloat(1), FSub(FMul(delta.U1, delta.V2), FMul(delta.U2, delta.V1))),
         LAMBDA inverseDet :
    Bind([X |-> FMul(inverseDet, FSub(FMul(delta.V2, delta.X1), FMul(delta.V1, delta.X2))),
          Y |-> FMul(inverseDet, FSub(FMul(delta.V2, delta.Y1), FMul(delta.V1, delta.Y2))),
          Z |-> FMul(inverseDet, FSub(FMul(delta.V2, delta.Z1), FMul(delta.V1, delta.Z2)))],
         LAMBDA tangent :
    Bind([X |-> FMul(inverseDet, FSub(FMul(delta.U1, delta.X2), FMul(delta.U2, delta.X1))),
          Y |-> FMul(inverseDet, FSub(FMul(delta.U1, delta.Y2), FMul(delta.U2, delta.Y1))),
          Z |-> FMul(inverseDet, FSub(FMul(delta.U1, delta.Z2), FMul(delta.U2, delta.Z1)))],
         LAMBDA bitangent :
    Bind(FSqrt(FAdd(FAdd(FMul(tangent.X, tangent.X), FMul(tangent.Y, tangent.Y)),
                    FMul(tangent.Z, tangent.Z))),
         LAMBDA tangentLength :
    Bind(FSqrt(FAdd(FAdd(FMul(bitangent.X, bitangent.X), FMul(bitangent.Y, bitangent.Y)),
                    FMul(bitangent.Z, bitangent.Z))),
         LAMBDA bitangentLength :
      [tangent |-> <<FDiv(tangent.X, tangentLength),
                     FDiv(tangent.Y, tangentLength),
                     FDiv(tangent.Z, tangentLength)>>,
       bitangent |-> <<FDiv(bitangent.X, bitangentLength),
                       FDiv(bitangent.Y, bitangentLength),
                       FDiv(bitangent.Z, bitangentLength)>>]))))))

\* CopiedPositions with a range check that skips the face
CopiedPositionsChecked(geom, face, g) ==
    IF ReadsOutOfBounds(geom, face) THEN <<>>
    ELSE CornerPosition(geom, face, 1, g) \o CornerPosition(geom, face, 2, g)
           \o CornerPosition(geom, face, 3, g)
\* the floats the attribute copy appends for the three corners of a face
CopiedPositions(geom, face, g) ==
    CornerPosition(geom, face, 1, g) \o CornerPosition(geom, face, 2, g)
        \o CornerPosition(geom, face, 3, g)
CopiedTexCoords(geom, face, g) ==
    IF HasTextureCoords(face)
    THEN CornerTexCoord(geom, face, 1, g) \o CornerTexCoord(geom, face, 2, g)
           \o CornerTexCoord(geom, face, 3, g)
    ELSE <<>>
CopiedNormals(geom, face, g) ==
    IF HasNormals(face)
    THEN CornerNormal(geom, face, 1, g) \o CornerNormal(geom, face, 2, g)
           \o CornerNormal(geom, face, 3, g)
    ELSE <<>>

\* the body of the face loop applied to the output buffers out
ExpandOne(out, geom, face, g) ==
    Bind([out EXCEPT !.vertices = @ \o CopiedPositions(geom, face, g),
                     !.textureCoords = @ \o CopiedTexCoords(geom, face, g),
                     !.normals = @ \o CopiedNormals(geom, face, g)],
         LAMBDA copied :
      IF HasTextureCoords(face) /\ HasNormals(face)
      THEN Bind(LastN(copied.vertices, 9), LAMBDA vs :
           Bind(LastN(copied.textureCoords, 6), LAMBDA uv :
           Bind(TangentPair(vs, uv), LAMBDA tb :
             [copied EXCEPT
                !.tangents = @ \o tb.tangent \o tb.tangent \o tb.tangent,
                !.bitangents = @ \o tb.bitangent \o tb.bitangent \o tb.bitangent])))
      ELSE copied)

\* GeometryData::vertexCount()
VertexCountOf(out) == Len(out.vertices) \div 3

----------------------------------------------------------------------------
(* Input files: a sequence of lines, each a sequence of characters *)

Dg(n) == DigitChars[n + 1]

LineV(x, y, z) == <<"v", " ", Dg(x), " ", Dg(y), " ", Dg(z), "\n">>
LineVT(u, v) == <<"v", "t", " ", Dg(u), " ", Dg(v), "\n">>
LineVN(x, y, z) == <<"v", "n", " ", Dg(x), " ", Dg(y), " ", Dg(z), "\n">>

FaceSyntaxes == {"i", "i/t", "i//n", "i/t/n"}

\* a face corner in each syntax of the format
Corner(syntax, i, t, n) ==
    CASE syntax = "i" -> <<Dg(i)>>
      [] syntax = "i/t" -> <<Dg(i), "/", Dg(t)>>
      [] syntax = "i//n" -> <<Dg(i), "/", "/", Dg(n)>>
      [] syntax = "i/t/n" -> <<Dg(i), "/", Dg(t), "/", Dg(n)>>

\* the corners the face line of each syntax refers to
FaceCorners(syntax) ==
    CASE syntax = "i" -> <<1, 2, 3>>
      [] syntax = "i/t" -> <<2, 3, 1>>
      [] syntax = "i//n" -> <<3, 1, 2>>
      [] syntax = "i/t/n" -> <<1, 2, 3>>

\* f c1 c2 c3, with a fourth corner when extra
LineF(syntax, extra) ==
    LET k == FaceCorners(syntax)
    IN <<"f", " ">> \o Corner(syntax, k[1], k[1], 1) \o <<" ">>
         \o Corner(syntax, k[2], k[2], 1) \o <<" ">>
         \o Corner(syntax, k[3], k[3], 1)
         \o (IF extra THEN <<" ">> \o Corner(syntax, 1, 1, 1) ELSE <<>>)
         \o <<"\n">>

\* f with corner 0 written i//n and corners 1 and 2 written i/t
LineFMixed == <<"f", " ">> \o Corner("i//n", 1, 1, 1) \o <<" ">>
                \o Corner("i/t", 2, 2, 1) \o <<" ">>
                \o Corner("i/t", 3, 3, 1) \o <<"\n">>

\* f whose three corners name the same texture coordinate
LineFSameUV == <<"f", " ">> \o Corner("i/t/n", 1, 1, 1) \o <<" ">>
                 \o Corner("i/t/n", 2, 1, 1) \o <<" ">>
                 \o Corner("i/t/n", 3, 1, 1) \o <<"\n">>

\* f whose first corner is written with position index 0
LineFZero == <<"f", " ">> \o Corner("i/t/n", 0, 1, 1) \o <<" ">>
               \o Corner("i/t/n", 2, 2, 1) \o <<" ">>
               \o Corner("i/t/n", 3, 3, 1) \o <<"\n">>

FaceLines == {LineF(syntax, extra) : syntax \in FaceSyntaxes, extra \in BOOLEAN}

\* face lines that differ per corner, with two faces of one syntax
MoreFaceLines == {LineFMixed, LineFSameUV, LineFZero,
                  LineF("i//n", FALSE), LineF("i/t/n", FALSE)}

LineBareComment == <<"#", "\n">>
LineComment == <<"#", " ", "c", "\n">>
LineVP == <<"v", "p", " ", "1", "\n">>
CommentLines == {LineBareComment, LineComment, LineVP}

\* a line starting with a character that is none of # v f
LineUnknown == <<"o", " ", "v", " ", "2", " ", "2", " ", "2", "\n">>
UnknownLines == {LineUnknown}

\* malformed v lines: a non-numeric field, too few fields
LineVBadToken == <<"v", " ", "a", "\n">>
LineVShort == <<"v", " ", "1", " ", "2", "\n">>
MalformedLines == {LineVBadToken, LineVShort}

BodyLines == FaceLines \cup CommentLines \cup UnknownLines \cup MalformedLines
               \cup {LineV(1, 1, 1)}

\* three positions, three texture coordinates and one normal
PoolLines == <<LineV(0, 0, 0), LineV(1, 0, 0), LineV(0, 1, 0),
               LineVT(0, 0), LineVT(1, 0), LineVT(0, 1), LineVN(0, 0, 1)>>

SeqsOver(lines, n) == UNION {[1..k -> lines] : k \in 0..n}
LineSeqs(n) == SeqsOver(BodyLines, n)

\* free lines before and after an optional pool
FilesOver(lines) ==
    UNION {{a \o pre \o b : a \in [1..k -> lines],
                             pre \in {<<>>, PoolLines},
                             b \in SeqsOver(lines, MaxLines - k)} : k \in 0..MaxLines}

Files == FilesOver(BodyLines) \cup FilesOver(MoreFaceLines)

RECURSIVE Flatten(_)
Flatten(lines) == IF lines = <<>> THEN <<>> ELSE Head(lines) \o Flatten(Tail(lines))

----------------------------------------------------------------------------
(* The state of one call of loadFromOBJFile on a GeometryData *)

VARIABLES
    file,             \* the lines of the file named by filename
    pc,               \* "open", "parse", "expand", "done", "crashed"
    inStream, currentDataType, tempGeom,  \* locals of loadFromOBJFile
    log,              \* what was written to cout
    faceIndex,        \* the face loop's counter
    vertices, textureCoords, normals, tangents, bitangents,  \* the members
    earlier,          \* the files of the earlier calls on this GeometryData
    events,           \* the SDL event queue
    running,          \* main's flag
    mainPc,           \* "poll", "render", "delay", "cleanup", "exited"
    event,            \* render's SDL_Event
    posted,           \* how many events have entered the queue
    vertexBuffer,     \* the window's member: the name glGenBuffers gave last
    liveBuffers,      \* the buffer names generated and not deleted
    generated         \* how many buffer names glGenBuffers has given

\* the state of main and of the window
\* the window's buffer member and the device's buffers
glVars == <<vertexBuffer, liveBuffers, generated>>

mainVars == <<events, running, mainPc, event, posted, glVars>>

vars == <<file, pc, inStream, currentDataType, tempGeom, log, faceIndex,
          vertices, textureCoords, normals, tangents, bitangents,
          earlier, mainVars>>

buffers == <<vertices, textureCoords, normals, tangents, bitangents>>

\* the parser's locals as one record, and back
Parse == [inStream |-> inStream, currentDataType |-> currentDataType,
          tempGeom |-> tempGeom, log |-> log]

SetParse(q) ==
    /\ inStream' = q.inStream
    /\ currentDataType' = q.currentDataType
    /\ tempGeom' = q.tempGeom
    /\ log' = q.log

Out == [vertices |-> vertices, textureCoords |-> textureCoords,
        normals |-> normals, tangents |-> tangents, bitangents |-> bitangents]

SetOut(o) ==
    /\ vertices' = o.vertices
    /\ textureCoords' = o.textureCoords
    /\ normals' = o.normals
    /\ tangents' = o.tangents
    /\ bitangents' = o.bitangents

vertexCount == VertexCountOf(Out)

\* a GeometryData after construction, about to load one of the files
FreshLoad(files) ==
    /\ file \in files
    /\ pc = "open"
    /\ inStream = NewStream(<<>>)
    /\ currentDataType = "NONE"
    /\ tempGeom = EmptyGeom
    /\ log = <<>>
    /\ faceIndex = 0
    /\ vertices = <<>>
    /\ textureCoords = <<>>
    /\ normals = <<>>
    /\ tangents = <<>>
    /\ bitangents = <<>>
    /\ earlier = <<>>

\* main before its first iteration
MainStart ==
    /\ events = <<>>
    /\ running = TRUE
    /\ mainPc = "poll"
    /\ event = "none"
    /\ posted = 0
    /\ vertexBuffer = 0
    /\ liveBuffers = {}
    /\ generated = 0

Init == FreshLoad(Files) /\ MainStart

\* OpenOk that clears the members before the load
OpenOkClearing ==
    /\ pc = "open"
    /\ inStream' = NewStream(Flatten(file))
    /\ pc' = "parse"
    /\ SetOut(EmptyBuffers)
    /\ UNCHANGED <<earlier, mainVars, file, currentDataType, tempGeom, log, faceIndex>>

\* inStream.open succeeds: the loop starts with currentDataType = NONE
OpenOk ==
    /\ pc = "open"
    /\ inStream' = NewStream(Flatten(file))
    /\ pc' = "parse"
    /\ UNCHANGED <<earlier, mainVars, file, currentDataType, tempGeom, log, faceIndex, buffers>>

\* inStream.fail() after open: a message, then return
OpenFail ==
    /\ pc = "open"
    /\ inStream' = [inStream EXCEPT !.failbit = TRUE]
    /\ log' = Append(log, "unable to open")
    /\ pc' = "done"
    /\ UNCHANGED <<earlier, mainVars, file, currentDataType, tempGeom, faceIndex, buffers>>

InLoop(dataType) == pc = "parse" /\ ~inStream.eofbit /\ currentDataType = dataType

ParseNone ==
    /\ InLoop("NONE")
    /\ \E q \in {CaseNone(Parse)} : SetParse(q)
    /\ UNCHANGED <<earlier, mainVars, file, pc, faceIndex, buffers>>

ParseVertex ==
    /\ InLoop("VERTEX")
    /\ \E g \in GarbageFloats : \E q \in {CaseVertex(Parse, g)} : SetParse(q)
    /\ UNCHANGED <<earlier, mainVars, file, pc, faceIndex, buffers>>

ParseTextureCoord ==
    /\ InLoop("TEXTURECOORD")
    /\ \E g \in GarbageFloats : \E q \in {CaseTextureCoord(Parse, g)} : SetParse(q)
    /\ UNCHANGED <<earlier, mainVars, file, pc, faceIndex, buffers>>

ParseNormal ==
    /\ InLoop("NORMAL")
    /\ \E g \in GarbageFloats : \E q \in {CaseNormal(Parse, g)} : SetParse(q)
    /\ UNCHANGED <<earlier, mainVars, file, pc, faceIndex, buffers>>

ParseFace ==
    /\ InLoop("FACE")
    /\ \E q \in {CaseFace(Parse)} : SetParse(q)
    /\ UNCHANGED <<earlier, mainVars, file, pc, faceIndex, buffers>>

ParseComment ==
    /\ InLoop("COMMENT")
    /\ \E q \in {CaseComment(Parse)} : SetParse(q)
    /\ UNCHANGED <<earlier, mainVars, file, pc, faceIndex, buffers>>

\* while(!inStream.eof()) ends the loop; the face loop starts
ParseEnd ==
    /\ pc = "parse"
    /\ inStream.eofbit
    /\ pc' = "expand"
    /\ faceIndex' = 0
    /\ UNCHANGED <<earlier, mainVars, file, inStream, currentDataType, tempGeom, log, buffers>>

ExpandFace ==
    /\ pc = "expand"
    /\ faceIndex < Len(tempGeom.faces)
    /\ \E g \in GarbageFloats :
           \E o \in {ExpandOne(Out, tempGeom, tempGeom.faces[faceIndex + 1], g)} :
               SetOut(o)
    /\ faceIndex' = faceIndex + 1
    /\ UNCHANGED <<earlier, mainVars, file, pc, inStream, currentDataType, tempGeom, log>>

\* a read outside a pool may also end the process
ExpandCrash ==
    /\ pc = "expand"
    /\ faceIndex < Len(tempGeom.faces)
    /\ ReadsOutOfBounds(tempGeom, tempGeom.faces[faceIndex + 1])
    /\ pc' = "crashed"
    /\ UNCHANGED <<earlier, mainVars, file, inStream, currentDataType, tempGeom, log, faceIndex, buffers>>

\* the face loop is over: the summary line, then return
LoadReturn ==
    /\ pc = "expand"
    /\ faceIndex = Len(tempGeom.faces)
    /\ log' = Append(log, "loaded")
    /\ pc' = "done"
    /\ UNCHANGED <<earlier, mainVars, file, inStream, currentDataType, tempGeom, faceIndex, buffers>>

Next ==
    \/ OpenOk
    \/ OpenFail
    \/ ParseNone
    \/ ParseVertex
    \/ ParseTextureCoord
    \/ ParseNormal
    \/ ParseFace
    \/ ParseComment
    \/ ParseEnd
    \/ ExpandFace
    \/ ExpandCrash
    \/ LoadReturn

Spec == Init /\ [][Next]_vars

----------------------------------------------------------------------------
(* Further calls of loadFromOBJFile on the same GeometryData *)

MaxLoads == 2

\* the pool followed by one face line, a face line without a pool, no line
ReloadFiles == {PoolLines \o <<f>> :
                   f \in {LineF("i", FALSE), LineF("i/t/n", FALSE), LineFMixed}}
                 \cup {<<LineF("i/t/n", FALSE)>>, <<>>}

\* the caller calls again after a return: the locals are fresh, the members
\* are as the earlier call left them
CallAgain ==
    /\ pc = "done"
    /\ Len(earlier) + 1 < MaxLoads
    /\ earlier' = Append(earlier, file)
    /\ file' \in ReloadFiles
    /\ pc' = "open"
    /\ inStream' = NewStream(<<>>)
    /\ currentDataType' = "NONE"
    /\ tempGeom' = EmptyGeom
    /\ faceIndex' = 0
    /\ UNCHANGED <<mainVars, log, buffers>>

InitReload == FreshLoad(ReloadFiles) /\ MainStart

NextReload ==
    \/ Next
    \/ CallAgain

SpecReload == InitReload /\ [][NextReload]_vars

----------------------------------------------------------------------------
(* main's loop and the window's render and handleEvent *)

MaxEvents == 3

\* render is called at most this many times
MaxFrames == 3

EventTypes == {"SDL_QUIT", "SDL_KEYDOWN SDLK_ESCAPE", "SDL_KEYDOWN SDLK_a",
               "SDL_MOUSEWHEEL"}

\* the events after which the program is to exit
QuitEvents == {"SDL_QUIT", "SDL_KEYDOWN SDLK_ESCAPE"}

\* false only for a key-down of Escape
handleEvent(e) == e # "SDL_KEYDOWN SDLK_ESCAPE"

\* the user or the window system adds an event to the queue
PostEvent ==
    /\ mainPc # "exited"
    /\ posted < MaxEvents
    /\ \E e \in EventTypes : events' = Append(events, e)
    /\ posted' = posted + 1
    /\ UNCHANGED <<earlier, file, pc, inStream, currentDataType, tempGeom, log,
                   faceIndex, buffers, running, mainPc, event, glVars>>

\* main's SDL_PollEvent returns an event
MainPollEvent ==
    /\ mainPc = "poll"
    /\ events # <<>>
    /\ events' = Tail(events)
    /\ running' = IF Head(events) = "SDL_QUIT" THEN FALSE
                  ELSE IF ~handleEvent(Head(events)) THEN FALSE
                  ELSE running
    /\ UNCHANGED <<earlier, file, pc, inStream, currentDataType, tempGeom, log,
                   faceIndex, buffers, mainPc, event, posted, glVars>>

\* main's SDL_PollEvent finds the queue empty: window.render() is called
MainPollEmpty ==
    /\ mainPc = "poll"
    /\ events = <<>>
    /\ generated < MaxFrames
    /\ mainPc' = "render"
    /\ UNCHANGED <<earlier, file, pc, inStream, currentDataType, tempGeom, log,
                   faceIndex, buffers, events, running, event, posted, glVars>>

\* render's SDL_PollEvent returns an event, which only a wheel event
\* gets a message for
RenderPollEvent ==
    /\ mainPc = "render"
    /\ events # <<>>
    /\ event' = Head(events)
    /\ events' = Tail(events)
    /\ UNCHANGED <<earlier, file, pc, inStream, currentDataType, tempGeom, log,
                   faceIndex, buffers, running, mainPc, posted, glVars>>

\* render's SDL_PollEvent finds the queue empty: glGenBuffers gives an
\* unused name, stored in vertexBuffer over the name of the frame before,
\* the frame is drawn and render returns
RenderPollEmpty ==
    /\ mainPc = "render"
    /\ events = <<>>
    /\ generated' = generated + 1
    /\ vertexBuffer' = generated + 1
    /\ liveBuffers' = liveBuffers \cup {generated + 1}
    /\ mainPc' = "delay"
    /\ UNCHANGED <<earlier, file, pc, inStream, currentDataType, tempGeom, log,
                   faceIndex, buffers, events, running, event, posted>>

\* SDL_Delay, then the test of while(running)
MainLoopTest ==
    /\ mainPc = "delay"
    /\ mainPc' = IF running THEN "poll" ELSE "cleanup"
    /\ UNCHANGED <<earlier, file, pc, inStream, currentDataType, tempGeom, log,
                   faceIndex, buffers, events, running, event, posted, glVars>>

\* window.cleanup(): glDeleteBuffers(1, &vertexBuffer) deletes the one
\* buffer vertexBuffer names; then SDL_Quit()
MainCleanup ==
    /\ mainPc = "cleanup"
    /\ liveBuffers' = liveBuffers \ {vertexBuffer}
    /\ mainPc' = "exited"
    /\ UNCHANGED <<earlier, file, pc, inStream, currentDataType, tempGeom, log,
                   faceIndex, buffers, events, running, event, posted,
                   vertexBuffer, generated>>

InitMain == FreshLoad({<<>>}) /\ MainStart

NextMain ==
    \/ PostEvent
    \/ MainPollEvent
    \/ MainPollEmpty
    \/ RenderPollEvent
    \/ RenderPollEmpty
    \/ MainLoopTest
    \/ MainCleanup

SpecMain == InitMain /\ [][NextMain]_vars

----------------------------------------------------------------------------
(* The whole load as a function of the file, for comparing two files *)

\* iterations of the loop up to the next return to NONE (or to the end of
\* the stream, or to an iteration that changes nothing)
RECURSIVE ParseLine(_, _)
ParseLine(p, g) ==
    Bind(ParseStep(p, g), LAMBDA q :
      IF q = p \/ q.inStream.eofbit \/ q.currentDataType = "NONE" THEN q
      ELSE ParseLine(q, g))

\* the while loop, up to the end of the stream or to an iteration that
\* changes nothing
RECURSIVE ParseAll(_, _)
ParseAll(p, g) ==
    IF p.inStream.eofbit THEN p
    ELSE Bind(ParseLine(p, g), LAMBDA q : IF q = p THEN p ELSE ParseAll(q, g))

RECURSIVE ExpandAll(_, _, _, _)
ExpandAll(out, geom, k, g) ==
    IF k >= Len(geom.faces) THEN out
    ELSE Bind(ExpandOne(out, geom, geom.faces[k + 1], g),
              LAMBDA o : ExpandAll(o, geom, k + 1, g))

\* the pools, faces and buffers a fresh GeometryData gets from the lines
LoadOf(lines) ==
    Bind(ParseAll(NewParse(Flatten(lines)), 0), LAMBDA p :
      [tempGeom |-> p.tempGeom,
       out |-> ExpandAll(EmptyBuffers, p.tempGeom, 0, 0),
       ended |-> p.inStream.eofbit])

----------------------------------------------------------------------------
(* Describing files and outcomes *)

Range(f) == {f[i] : i \in DOMAIN f}
RemoveAt(f, i) == SubSeq(f, 1, i - 1) \o SubSeq(f, i + 1, Len(f))
ReplaceAt(f, i, line) == [f EXCEPT ![i] = line]

IsFaceLine(line) == line[1] = "f"
IsVLine(line) == line[1] = "v" /\ line[2] = " "
IsVTLine(line) == line[1] = "v" /\ line[2] = "t"
IsVNLine(line) == line[1] = "v" /\ line[2] = "n"
IsDataLine(line) == IsFaceLine(line) \/ IsVLine(line) \/ IsVTLine(line) \/ IsVNLine(line)

Count(f, Is(_)) == Cardinality({i \in DOMAIN f : Is(f[i])})
NumFaceLines(f) == Count(f, IsFaceLine)

\* the lines that are valid v, vt, vn, three-corner f or comment lines
ValidLines == {LineF(syntax, FALSE) : syntax \in FaceSyntaxes}
                \cup {LineBareComment, LineComment}
                \cup Range(PoolLines) \cup {LineV(1, 1, 1)}

\* the face lines refer to positions 1..3, texture coordinates 1..3, normal 1
FaceIndicesInPool(f) ==
    NumFaceLines(f) > 0 =>
        Count(f, IsVLine) >= 3 /\ Count(f, IsVTLine) >= 3 /\ Count(f, IsVNLine) >= 1

WellFormed(f) == Range(f) \subseteq ValidLines /\ FaceIndicesInPool(f)

\* no position-only face line is directly followed by another line
NoLineAfterBareFace(f) == \A j \in 1..(Len(f) - 1) : f[j] # LineF("i", FALSE)

\* loadFromOBJFile has returned after a successful open / after a failed open
LoadSucceeded == pc = "done" /\ log # <<>> /\ log[Len(log)] = "loaded"
OpenFailed == pc = "done" /\ log # <<>> /\ log[Len(log)] = "unable to open"

----------------------------------------------------------------------------
(* C1 *)

\* C1: for every well-formed file, after a load on a fresh GeometryData
\* vertexCount() is 3 times the number of f lines of the file.
C1_VertexCountIsThreePerFaceLine ==
    (LoadSucceeded /\ WellFormed(file) /\ LineBareComment \notin Range(file))
        => vertexCount = 3 * NumFaceLines(file)

(* C2 *)

\* the loop condition holds and an iteration of the loop changes nothing:
\* the loop, which is deterministic, runs forever
LoopStuck ==
    /\ pc = "parse"
    /\ ~inStream.eofbit
    /\ \A g \in GarbageFloats : ParseStep(Parse, g) = Parse

\* C2: on every file that opens, also one with a malformed line, the parse
\* loop reaches the end of the stream: it is never in a state from which
\* its iterations change nothing while the loop condition holds.
C2_ParseLoopTerminates == ~LoopStuck

(* C3 *)

\* C3: a comment line or a vp line between two data lines leaves pools,
\* faces and buffers as they are for the file without that line.
C3_CommentLineIsTransparent ==
    LoadSucceeded =>
        \A i \in 2..(Len(file) - 1) :
            (/\ file[i] \in CommentLines
             /\ IsDataLine(file[i - 1]) /\ IsDataLine(file[i + 1])
             /\ WellFormed(RemoveAt(file, i))
             /\ NoLineAfterBareFace(RemoveAt(file, i)))
            => LET r == LoadOf(RemoveAt(file, i))
               IN tempGeom = r.tempGeom /\ Out = r.out

(* C4 *)

\* C4: a line starting with none of # v f is reported and skipped as a
\* whole: pools and faces are those of the file without it.
C4_UnknownLineIsSkipped ==
    LoadSucceeded =>
        \A i \in DOMAIN file :
            (/\ file[i] \in UnknownLines
             /\ WellFormed(RemoveAt(file, i))
             /\ LineBareComment \notin Range(file)
             /\ NoLineAfterBareFace(file))
            => /\ "parse error" \in Range(log)
               /\ tempGeom = LoadOf(RemoveAt(file, i)).tempGeom

(* C5 *)

\* what the caller of the void loadFromOBJFile can observe afterwards
CallerView == [vertexCount |-> vertexCount, vertexData |-> vertices,
               textureCoordData |-> textureCoords, normalData |-> normals,
               tangentData |-> tangents, bitangentData |-> bitangents]

\* the caller's view after a successful load of a file without faces
ViewOfEmptyLoad ==
    LET o == LoadOf(<<LineComment>>).out
    IN [vertexCount |-> VertexCountOf(o), vertexData |-> o.vertices,
        textureCoordData |-> o.textureCoords, normalData |-> o.normals,
        tangentData |-> o.tangents, bitangentData |-> o.bitangents]

\* C5: after a failed open the caller has a failure signal that tells the
\* call from a successful load of a file without faces, nothing was parsed
\* and the five buffers are as before the call.
C5_OpenFailureIsSignalled ==
    OpenFailed => /\ CallerView # ViewOfEmptyLoad
                  /\ tempGeom = EmptyGeom
                  /\ Out = EmptyBuffers

\* the part of C5 the code does satisfy
OpenFailureLeavesBuffers ==
    OpenFailed => tempGeom = EmptyGeom /\ Out = EmptyBuffers /\ vertexCount = 0

(* C6 *)

\* C6: when all F face lines of the file are i/t/n faces with indices in
\* range, a load on a fresh GeometryData yields 9F position, 6F texcoord,
\* 9F normal, 9F tangent and 9F bitangent floats.
C6_FullFacesBufferSizes ==
    (/\ LoadSucceeded
     /\ WellFormed(file)
     /\ \A i \in DOMAIN file : IsFaceLine(file[i]) => file[i] = LineF("i/t/n", FALSE))
    => LET F == NumFaceLines(file)
       IN /\ Len(vertices) = 9 * F
          /\ Len(textureCoords) = 6 * F
          /\ Len(normals) = 9 * F
          /\ Len(tangents) = 9 * F
          /\ Len(bitangents) = 9 * F

(* C7 *)

NoTexNoNormal(face) ==
    \A c \in 1..3 : face.texCoordIndex[c] < 0 /\ face.normalIndex[c] < 0

\* C7: expanding a face without texture and normal references appends 9
\* floats to the position buffer and leaves the texcoord, normal, tangent
\* and bitangent buffers unchanged.
C7_BareFaceOnlyAddsPositions ==
    [][(/\ pc = "expand"
        /\ faceIndex' = faceIndex + 1
        /\ NoTexNoNormal(tempGeom.faces[faceIndex + 1]))
       => /\ Len(vertices') = Len(vertices) + 9
          /\ SubSeq(vertices', 1, Len(vertices)) = vertices
          /\ textureCoords' = textureCoords
          /\ normals' = normals
          /\ tangents' = tangents
          /\ bitangents' = bitangents]_vars

\* a face without texture and normal references has just been expanded
C7_Witness ==
    /\ pc \in {"expand", "done"}
    /\ faceIndex >= 1
    /\ NoTexNoNormal(tempGeom.faces[faceIndex])
    /\ Len(vertices) >= 9

(* C8 *)

\* the position indices written on a face line, and the floats of a v line
WrittenSyntax(line) ==
    CHOOSE syntax \in FaceSyntaxes : \E extra \in BOOLEAN : line = LineF(syntax, extra)
WrittenPositions(line) == FaceCorners(WrittenSyntax(line))
WrittenXYZ(line) == <<ToFloat(DigitVal(line[3])), ToFloat(DigitVal(line[5])),
                      ToFloat(DigitVal(line[7]))>>

\* C8: for the k-th face line f a b c with a, b, c at most the number of v
\* lines, the 9 position floats of the k-th face are the x, y, z of the
\* a-th, b-th and c-th v line of the file.
C8_PositionsOfWrittenIndices ==
    (LoadSucceeded /\ WellFormed(file)) =>
        LET fl == SelectSeq(file, IsFaceLine)
            vl == SelectSeq(file, IsVLine)
        IN \A k \in 1..Len(fl) :
               LET abc == WrittenPositions(fl[k])
               IN (\A c \in 1..3 : abc[c] <= Len(vl))
                  => /\ Len(vertices) >= 9 * k
                     /\ SubSeq(vertices, 9 * (k - 1) + 1, 9 * k)
                          = WrittenXYZ(vl[abc[1]]) \o WrittenXYZ(vl[abc[2]])
                              \o WrittenXYZ(vl[abc[3]])

(* C9 *)

\* C9: a face line with a fourth corner gives the same face record as the
\* line without it, and the lines after it are parsed as they are after
\* the line without it, in every corner syntax.
C9_ExtraCornerIsDropped ==
    LoadSucceeded =>
        \A i \in DOMAIN file : \A syntax \in FaceSyntaxes :
            LET without == ReplaceAt(file, i, LineF(syntax, FALSE))
            IN (/\ file[i] = LineF(syntax, TRUE)
                /\ WellFormed(without)
                /\ LineBareComment \notin Range(file))
               => LET r == LoadOf(without)
                  IN tempGeom = r.tempGeom /\ Out = r.out

(* C10 *)

C10Positions == <<0, 0, 0, ToFloat(1), 0, 0, 0, ToFloat(1), 0>>
C10TexCoords == <<0, 0, ToFloat(1), 0, 0, ToFloat(1)>>
C10Tangent == <<ToFloat(1), 0, 0>>
C10Bitangent == <<0, ToFloat(1), 0>>

\* the vector v ends with the floats w
EndsWith(v, w) == Len(v) >= Len(w) /\ SubSeq(v, Len(v) - Len(w) + 1, Len(v)) = w

\* the length of a 3-vector, as the code computes it
Length3(v) == FSqrt(FAdd(FAdd(FMul(v[1], v[1]), FMul(v[2], v[2])), FMul(v[3], v[3])))

\* C10: for a face with positions (0,0,0),(1,0,0),(0,1,0), UVs (0,0),(1,0),
\* (0,1) and normals, each corner gets tangent (1,0,0) and bitangent
\* (0,1,0), both of length 1.
C10_UnitTangentOfReferenceFace ==
    [][(/\ pc = "expand"
        /\ faceIndex' = faceIndex + 1
        /\ HasTextureCoords(tempGeom.faces[faceIndex + 1])
        /\ HasNormals(tempGeom.faces[faceIndex + 1])
        /\ EndsWith(vertices', C10Positions)
        /\ EndsWith(textureCoords', C10TexCoords))
       => /\ tangents' = tangents \o C10Tangent \o C10Tangent \o C10Tangent
          /\ bitangents' = bitangents \o C10Bitangent \o C10Bitangent \o C10Bitangent
          /\ Length3(C10Tangent) = ToFloat(1)
          /\ Length3(C10Bitangent) = ToFloat(1)]_vars

\* the reference face has just been expanded
C10_Witness ==
    /\ pc \in {"expand", "done"}
    /\ faceIndex >= 1
    /\ HasTextureCoords(tempGeom.faces[faceIndex])
    /\ HasNormals(tempGeom.faces[faceIndex])
    /\ EndsWith(vertices, C10Positions)
    /\ EndsWith(textureCoords, C10TexCoords)
    /\ Len(tangents) >= 9

(* C11 *)

\* the positions of the stream at which a line of the file starts, with
\* the position after the last line
RECURSIVE LineStarts(_)
LineStarts(f) ==
    IF f = <<>> THEN {1}
    ELSE {1} \cup {Len(Head(f)) + k : k \in LineStarts(Tail(f))}

\* only valid v, vt, vn and three-corner f lines
DataOnly(f) == Range(f) \subseteq (ValidLines \ CommentLines)

\* C11: in a file of valid v, vt, vn and f lines the skip state is entered
\* with the newline of the line just read still unread, and the parser is
\* back in NONE only at the start of a line: no character of the following
\* line is consumed by the skip, for every corner syntax.
C11_SkipStopsAtEndOfLine ==
    (pc = "parse" /\ DataOnly(file)) =>
        /\ currentDataType = "NONE" => inStream.pos \in LineStarts(file)
        /\ (currentDataType = "COMMENT" /\ inStream.pos <= Len(inStream.buf))
               => inStream.buf[inStream.pos - 1] # "\n"

(* C12 *)

\* the line of the file that holds the character at a position of the stream
RECURSIVE LineOf(_, _)
LineOf(f, pos) ==
    IF Len(f) = 1 \/ pos <= Len(Head(f)) THEN Head(f)
    ELSE LineOf(Tail(f), pos - Len(Head(f)))

\* the blank-separated fields of a line
RECURSIVE Fields(_, _)
Fields(line, cur) ==
    IF line = <<>> THEN (IF cur = <<>> THEN <<>> ELSE <<cur>>)
    ELSE IF Head(line) \in {" ", "\n"}
         THEN (IF cur = <<>> THEN <<>> ELSE <<cur>>) \o Fields(Tail(line), <<>>)
         ELSE Fields(Tail(line), Append(cur, Head(line)))

\* a corner as written: i/t and i/t/n have a texture slot, i//n and i/t/n
\* a normal slot
Slashes(corner) == {i \in DOMAIN corner : corner[i] = "/"}
HasTextureSlot(corner) ==
    \E i \in Slashes(corner) :
        /\ \A j \in Slashes(corner) : j >= i
        /\ i < Len(corner)
        /\ corner[i + 1] \in Digits
HasNormalSlot(corner) == Cardinality(Slashes(corner)) = 2

\* no line of the file is swallowed by the skip after another line
NoLineSwallowed(f) == LineBareComment \notin Range(f) /\ NoLineAfterBareFace(f)

\* the parser has just read the three corners of an f line, from which the
\* last face record was made
FaceLineJustRead ==
    /\ pc = "parse"
    /\ currentDataType = "COMMENT"
    /\ NoLineSwallowed(file)
    /\ IsFaceLine(LineOf(file, inStream.pos - 1))
    /\ tempGeom.faces # <<>>

\* C12: in the face record made from an f line, each corner written without
\* a texture slot has texCoordIndex -1 and each corner written without a
\* normal slot has normalIndex -1, whatever the earlier corners of the
\* line gave.
C12_AbsentSlotIsMinusOne ==
    FaceLineJustRead =>
        LET corners == Fields(LineOf(file, inStream.pos - 1), <<>>)
            face == tempGeom.faces[Len(tempGeom.faces)]
        IN \A c \in 1..3 :
               /\ ~HasTextureSlot(corners[c + 1]) => face.texCoordIndex[c] = -1
               /\ ~HasNormalSlot(corners[c + 1]) => face.normalIndex[c] = -1

(* C13 *)

\* C13: a malformed v line affects only itself: pools and faces after the
\* load are those of the file without that line (the line contributes no
\* entry, and takes no token from the line after it).
C13_MalformedLineAffectsOnlyItself ==
    LoadSucceeded =>
        \A i \in DOMAIN file :
            (/\ file[i] \in MalformedLines
             /\ WellFormed(RemoveAt(file, i))
             /\ NoLineSwallowed(file))
            => tempGeom = LoadOf(RemoveAt(file, i)).tempGeom

(* C14 *)

\* the faces expanded so far whose corner 0 satisfies Has
ExpandedWith(Has(_)) ==
    Cardinality({k \in 1..faceIndex : Has(tempGeom.faces[k])})

Corner0HasTexture(face) == face.texCoordIndex[1] >= 0
Corner0HasNormal(face) == face.normalIndex[1] >= 0
Corner0HasBoth(face) == Corner0HasTexture(face) /\ Corner0HasNormal(face)

\* C14: during and after the face loop of a load on a fresh object the
\* texcoord length is 6 x (expanded faces with a texture index at corner 0),
\* the normal length 9 x (expanded faces with a normal index at corner 0),
\* and the tangent and bitangent lengths are both 9 x (expanded faces with
\* both), whatever corners 1 and 2 carry.
C14_Corner0Decides ==
    (pc \in {"expand", "done", "crashed"} /\ earlier = <<>>) =>
        /\ Len(textureCoords) = 6 * ExpandedWith(Corner0HasTexture)
        /\ Len(normals) = 9 * ExpandedWith(Corner0HasNormal)
        /\ Len(tangents) = 9 * ExpandedWith(Corner0HasBoth)
        /\ Len(bitangents) = Len(tangents)

\* a load has returned with a face whose corner 0 has no texture index and
\* whose corner 1 has one
C14_Witness ==
    /\ LoadSucceeded
    /\ \E k \in 1..faceIndex :
           /\ tempGeom.faces[k].texCoordIndex[1] < 0
           /\ tempGeom.faces[k].texCoordIndex[2] >= 0
           /\ tempGeom.faces[k].normalIndex[1] >= 0

(* C15 *)

\* a corner of the face has an index outside 1..(entries of its pool), as
\* written; the texture and normal pools count when corner 0 has the index
OutsidePool(geom, face) ==
    \E c \in 1..3 :
        \/ face.vertexIndex[c] + 1 \notin 1..(Len(geom.vertices) \div 3)
        \/ /\ Corner0HasTexture(face)
           /\ face.texCoordIndex[c] + 1 \notin 1..(Len(geom.textureCoords) \div 2)
        \/ /\ Corner0HasNormal(face)
           /\ face.normalIndex[c] + 1 \notin 1..(Len(geom.normals) \div 3)

\* C15: a step of the face loop on a face with an index outside its pool
\* appends the face's 9 position floats, and its 6 texcoord and 9 normal
\* floats when corner 0 has the index, writes no message and goes on to the
\* next face: the face is neither checked nor skipped.
C15_NoRangeCheck ==
    [][(/\ pc = "expand"
        /\ faceIndex' = faceIndex + 1
        /\ OutsidePool(tempGeom, tempGeom.faces[faceIndex + 1]))
       => /\ Len(vertices') = Len(vertices) + 9
          /\ Len(textureCoords') = Len(textureCoords)
               + (IF Corner0HasTexture(tempGeom.faces[faceIndex + 1]) THEN 6 ELSE 0)
          /\ Len(normals') = Len(normals)
               + (IF Corner0HasNormal(tempGeom.faces[faceIndex + 1]) THEN 9 ELSE 0)
          /\ log' = log
          /\ pc' = "expand"]_vars

\* the face loop has expanded a face whose corner 0 was written with
\* position index 0, in a file that has the pool
C15_Witness ==
    /\ pc = "expand"
    /\ faceIndex >= 1
    /\ PoolLines[1] \in Range(file)
    /\ tempGeom.faces[faceIndex].vertexIndex[1] = -1
    /\ OutsidePool(tempGeom, tempGeom.faces[faceIndex])
    /\ Len(vertices) = 9 * faceIndex

(* C16 *)

\* the f lines of a file that is valid three-corner f lines followed by the pool
FacesBeforePool(f) == SubSeq(f, 1, Len(f) - Len(PoolLines))

IsFacesThenPool(f) ==
    /\ Len(f) > Len(PoolLines)
    /\ SubSeq(f, Len(f) - Len(PoolLines) + 1, Len(f)) = PoolLines
    /\ \A i \in 1..(Len(f) - Len(PoolLines)) :
           IsFaceLine(f[i]) /\ f[i] \in ValidLines

\* C16: f lines that come before the v, vt and vn lines they refer to
\* expand to the output floats, in the order of the f lines, that they
\* expand to when the same v, vt and vn lines come first.
C16_FacesMayPrecedePool ==
    (LoadSucceeded /\ IsFacesThenPool(file))
        => Out = LoadOf(PoolLines \o FacesBeforePool(file)).out

(* C17 *)

\* the position and texcoord floats the pools hold for the three corners of
\* a face whose indices are inside the pools
OwnPositions(geom, face) ==
    [i \in 1..9 |-> geom.vertices[3 * face.vertexIndex[(i + 2) \div 3]
                                   + ((i - 1) % 3) + 1]]
OwnTexCoords(geom, face) ==
    [i \in 1..6 |-> geom.textureCoords[2 * face.texCoordIndex[(i + 1) \div 2]
                                        + ((i - 1) % 2) + 1]]

\* C17: a step of the face loop on a face with texture and normal indices
\* (inside the pools) appends one tangent three times and one bitangent
\* three times, both computed from the positions and texcoords of that
\* face's own corners, which are the last 9 and the last 6 floats of the
\* position and texcoord buffers also when earlier faces had no texcoords.
C17_TangentFromOwnFace ==
    [][(/\ pc = "expand"
        /\ faceIndex' = faceIndex + 1
        /\ Corner0HasBoth(tempGeom.faces[faceIndex + 1])
        /\ ~OutsidePool(tempGeom, tempGeom.faces[faceIndex + 1]))
       => LET own == OwnPositions(tempGeom, tempGeom.faces[faceIndex + 1])
              uv == OwnTexCoords(tempGeom, tempGeom.faces[faceIndex + 1])
              tb == TangentPair(own, uv)
          IN /\ EndsWith(vertices', own)
             /\ EndsWith(textureCoords', uv)
             /\ tangents' = tangents \o tb.tangent \o tb.tangent \o tb.tangent
             /\ bitangents' = bitangents \o tb.bitangent \o tb.bitangent
                                \o tb.bitangent]_vars

\* a face with texture and normal indices has been expanded after a face
\* without texcoords, and its tangent is a finite vector
C17_Witness ==
    /\ pc \in {"expand", "done"}
    /\ faceIndex >= 2
    /\ Corner0HasBoth(tempGeom.faces[faceIndex])
    /\ ~OutsidePool(tempGeom, tempGeom.faces[faceIndex])
    /\ \E k \in 1..(faceIndex - 1) : ~Corner0HasTexture(tempGeom.faces[k])
    /\ Len(tangents) >= 9
    /\ \A i \in 1..3 : ~IsNaN(tangents[Len(tangents) - 3 + i])
                       /\ ~IsInf(tangents[Len(tangents) - 3 + i])
    /\ SubSeq(vertices, 1, 9) # SubSeq(vertices, Len(vertices) - 8, Len(vertices))

(* C18 *)

\* deltaU1 * deltaV2 - deltaU2 * deltaV1 of the texcoords uv of a face
UVDeterminant(uv) ==
    FSub(FMul(FSub(uv[3], uv[1]), FSub(uv[6], uv[2])),
         FMul(FSub(uv[5], uv[1]), FSub(uv[4], uv[2])))

NotFinite(x) == IsNaN(x) \/ IsInf(x)

\* C18: a step of the face loop on a face with texture and normal indices
\* whose UV determinant is zero writes no message and skips nothing: it
\* appends 9 tangent and 9 bitangent floats, none of them finite, the
\* outcome of the division by zero.
C18_ZeroDeterminantIsDivided ==
    [][(/\ pc = "expand"
        /\ faceIndex' = faceIndex + 1
        /\ Corner0HasBoth(tempGeom.faces[faceIndex + 1])
        /\ ~OutsidePool(tempGeom, tempGeom.faces[faceIndex + 1])
        /\ UVDeterminant(OwnTexCoords(tempGeom, tempGeom.faces[faceIndex + 1])) = 0)
       => /\ Len(tangents') = Len(tangents) + 9
          /\ Len(bitangents') = Len(bitangents) + 9
          /\ \A i \in (Len(tangents) + 1)..(Len(tangents) + 9) :
                 NotFinite(tangents'[i]) /\ NotFinite(bitangents'[i])
          /\ SubSeq(tangents', 1, Len(tangents)) = tangents
          /\ SubSeq(bitangents', 1, Len(bitangents)) = bitangents
          /\ log' = log
          /\ pc' = "expand"]_vars

\* the face whose three corners name one texture coordinate has been
\* expanded from the pool
C18_Witness ==
    /\ pc \in {"expand", "done"}
    /\ faceIndex >= 1
    /\ Corner0HasBoth(tempGeom.faces[faceIndex])
    /\ ~OutsidePool(tempGeom, tempGeom.faces[faceIndex])
    /\ UVDeterminant(OwnTexCoords(tempGeom, tempGeom.faces[faceIndex])) = 0
    /\ Len(tangents) >= 9
    /\ NotFinite(tangents[Len(tangents)])

(* C19 *)

\* the files of all the calls made on the object so far
AllLoaded == Append(earlier, file)

\* how many calls wrote the summary line
NumLoaded == Cardinality({i \in DOMAIN log : log[i] = "loaded"})

\* the face lines of the file only refer to entries of its pool
InsidePool(f) ==
    NumFaceLines(f) > 0 =>
        Len(f) > Len(PoolLines) /\ SubSeq(f, 1, Len(PoolLines)) = PoolLines

\* the buffers' floats of fresh loads of the files, one after the other
RECURSIVE ConcatLoads(_)
ConcatLoads(fs) ==
    IF fs = <<>> THEN EmptyBuffers
    ELSE LET first == LoadOf(Head(fs)).out
             rest == ConcatLoads(Tail(fs))
         IN [vertices |-> first.vertices \o rest.vertices,
             textureCoords |-> first.textureCoords \o rest.textureCoords,
             normals |-> first.normals \o rest.normals,
             tangents |-> first.tangents \o rest.tangents,
             bitangents |-> first.bitangents \o rest.bitangents]

RECURSIVE SumVertexCounts(_)
SumVertexCounts(fs) ==
    IF fs = <<>> THEN 0
    ELSE VertexCountOf(LoadOf(Head(fs)).out) + SumVertexCounts(Tail(fs))

\* every call on the object so far has returned after a successful open
AllLoadsSucceeded ==
    /\ LoadSucceeded
    /\ NumLoaded = Len(AllLoaded)
    /\ \A i \in DOMAIN AllLoaded : InsidePool(AllLoaded[i])

\* C19: after successful loads on one GeometryData the five buffers hold
\* the floats of the first load followed by those of the later loads,
\* vertexCount() is the sum of the loads' vertex counts, and a second load
\* of a file with faces does not leave what a single load of it leaves.
C19_BuffersAccumulate ==
    AllLoadsSucceeded =>
        /\ Out = ConcatLoads(AllLoaded)
        /\ vertexCount = SumVertexCounts(AllLoaded)
        /\ (earlier # <<>> /\ NumFaceLines(earlier[1]) > 0)
               => Out # LoadOf(file).out

\* two loads of files with faces have returned
C19_Witness ==
    /\ AllLoadsSucceeded
    /\ Len(earlier) = 1
    /\ NumFaceLines(earlier[1]) > 0
    /\ NumFaceLines(file) > 0
    /\ vertexCount = 6

(* C20 *)

\* C20: no SDL_QUIT and no Escape key-down event is taken from the queue
\* by render's poll loop: the event render has polled is never one of them,
\* so each of them is left for main's poll loop.
C20_QuitEventsReachMain == event \notin QuitEvents

(* C21 *)

\* C21: once cleanup() has run after one or more calls of render(), no
\* buffer that glGenBuffers created remains undeleted.
C21_CleanupDeletesAllBuffers ==
    (mainPc = "exited" /\ generated >= 1) => liveBuffers = {}

============================================================================
